---- MODULE Spec2Model ----
(***************************************************************************)
(* Asterisk: the tree-walking evaluator (evaluation.py, class Tree) and    *)
(* the module loader (asterisk.py, make_module_loader / load_module).      *)
(*                                                                         *)
(* The interpreted program is not fixed: every step the running code may   *)
(* execute any statement of the language, so a behaviour of the model is   *)
(* the execution of some program (function bodies and module files may     *)
(* branch on their state, so successive executions may differ).            *)
(* The Python call stack is the control stack ctl; a raised exception      *)
(* (LoopBreak, LoopContinue, FunctionReturn or an error) is the variable   *)
(* signal, handed frame by frame to the except/finally clauses.            *)
(***************************************************************************)
EXTENDS Integers, Sequences, FiniteSets, TLC

\* ---------------------------------------------------------------- bounds
MaxCtl == 3
MaxLoads == 2
MaxLoadsCalls == 1
MaxIter == 1
MaxCtlNested == 4
MaxLen == 2
MaxLists == 2
MaxImports == 3

\* ---------------------------------------------------------------- values
Names == {"m", "length"}
BuiltinNames == {"putln", "scan", "length"}

V(t, a) == [t |-> t, a |-> a]
Unbound == V("unbound", 0)
NoneV == V("none", 0)
IntV(i) == V("int", i)
FnV(e) == V("fn", e)
RefV(r) == V("ref", r)
BuiltinV(i) == V("builtin", i)
ListV(r) == V("list", r)
BoolV(b) == V("bool", b)
FloatV(i) == V("float", i)

EmptyScope == [n \in Names |-> Unbound]

\* Tree.__init__: a fresh evaluator
TreeInit(current_dir) ==
    [env |-> EmptyScope,
     current_dir |-> current_dir,
     local_scopes |-> <<>>,
     loop_depth |-> 0,
     function_depth |-> 0,
     builtins |-> [n \in BuiltinNames |->
                     BuiltinV(CASE n = "putln" -> 1 [] n = "scan" -> 2 [] OTHER -> 3)]]

\* ---------------------------------------------------------------- paths
\* a path is the sequence of its components
Cwd == <<"w">>
Dirs == {<<"w">>, <<"w", "lib">>}
RawPaths == {<<"m.sk">>, <<".", "m.sk">>, <<"lib", "m.sk">>, <<"..", "m.sk">>}

\* the module files on disk
Files == {<<"w", "m.sk">>, <<"w", "lib", "m.sk">>}

\* a path that exists but cannot be read as text (a directory, bytes that are
\* not UTF-8): read_text raises IsADirectoryError or UnicodeDecodeError
Unreadable == {<<"m.sk">>}

RECURSIVE normalize(_, _)
normalize(done, rest) ==
    IF rest = <<>> THEN done
    ELSE IF Head(rest) = "." THEN normalize(done, Tail(rest))
    ELSE IF Head(rest) = ".."
    THEN normalize(IF done = <<>> THEN done ELSE SubSeq(done, 1, Len(done) - 1), Tail(rest))
    ELSE normalize(Append(done, Head(rest)), Tail(rest))

\* load_module, lines 39-43: base / path, then path.resolve()
resolve(module_path, base_dir) == normalize(<<>>, base_dir \o module_path)

parent(path) == SubSeq(path, 1, Len(path) - 1)

Paths == {resolve(r, d) : r \in RawPaths, d \in Dirs}

\* import_stmt, line 139: Path(raw_path).stem
stem(raw_path) == IF raw_path[Len(raw_path)] = "m.sk" THEN "m" ELSE "length"

\* ---------------------------------------------------------------- errors
Tok(tag, path) == [tag |-> tag, path |-> path]
NoSignal == [kind |-> "none", val |-> NoneV, msg |-> <<>>]
ErrorSig(msg) == [kind |-> "error", val |-> NoneV, msg |-> msg]
LoopBreak == [kind |-> "break", val |-> NoneV, msg |-> <<>>]
LoopContinue == [kind |-> "continue", val |-> NoneV, msg |-> <<>>]
FunctionReturn(v) == [kind |-> "return", val |-> v, msg |-> <<>>]

\* how a run() call ended: it returned, or raised RuntimeError(message)
Returned == [raised |-> FALSE, msg |-> <<>>]
Raised(msg) == [raised |-> TRUE, msg |-> msg]

\* ---------------------------------------------------------------- state
VARIABLES
    evs,           \* the evaluators: evs[1] is E, the others the module runtimes
    module_cache,  \* canonical path -> heap reference of the exports (0: absent)
    loading,       \* the loader's set of paths being loaded
    heap,          \* the mapping objects (dict), by reference
    ctl,           \* the call stack: run / load / call / while / for frames
    signal,        \* the exception being propagated
    last,          \* what the last step completed: a call, a loop, a load (history)
    outcome,       \* how the last run() call ended
    evalCount,     \* history: how often each path's top level started to run
    exported,      \* history: the exports of each heap mapping when cached
    budget         \* what the behaviour may still use: loads, the module evaluations
                   \* it may start, and frames, the depth its call stack may reach

vars == <<evs, module_cache, loading, heap, ctl, signal, last, outcome,
          evalCount, exported, budget>>

\* a frame of the call stack. kind, ev (the evaluator whose code the frame runs),
\* phase, path, name, sc, had, old and rem are the Python locals of the frame;
\* base, ld0, fd0 and pre are history: the scope-stack height, the loop depth and
\* the function depth of ev when the frame was entered, and the loop variable's
\* binding at loop entry
Frame(kind, ev) ==
    [kind |-> kind, ev |-> ev, phase |-> "body", path |-> <<>>, name |-> "",
     sc |-> 0, had |-> FALSE, old |-> NoneV, rem |-> 0,
     base |-> 0, ld0 |-> 0, fd0 |-> 0, pre |-> Unbound]

\* the step completed nothing / completed `what`: the frame fr was left on the
\* exception sig (NoSignal: normally) and produced the value val
Nothing == [what |-> "none", sig |-> NoSignal, val |-> NoneV, fr |-> Frame("none", 0)]
Done(what, sig, val, fr) == [what |-> what, sig |-> sig, val |-> val, fr |-> fr]

Top == ctl[Len(ctl)]
Front(s) == SubSeq(s, 1, Len(s) - 1)
cur == Top.ev
T == evs[cur]

LoopKinds == {"while", "for"}

\* the running code is at a statement position
StmtCtx ==
    /\ ctl # <<>>
    /\ signal.kind = "none"
    /\ \/ Top.kind \in {"run", "load", "call"}
       \/ Top.kind \in LoopKinds /\ Top.phase = "body"

\* the running code is inside an expression (a statement's, or a while guard)
ExprCtx ==
    \/ StmtCtx
    \/ /\ ctl # <<>>
       /\ signal.kind = "none"
       /\ Top.kind = "while" /\ Top.phase = "cond"

\* ---------------------------------------------------------------- scopes
RECURSIVE lookup_scopes(_, _, _)
lookup_scopes(scopes, i, name) ==
    IF i = 0 THEN Unbound
    ELSE IF scopes[i][name] # Unbound THEN scopes[i][name]
    ELSE lookup_scopes(scopes, i - 1, name)

\* Tree._lookup_user_var; Unbound stands for KeyError
lookup_user_var(t, name) ==
    LET l == lookup_scopes(t.local_scopes, Len(t.local_scopes), name)
    IN  IF l # Unbound THEN l ELSE t.env[name]

\* Tree._lookup_var; Unbound stands for KeyError
lookup_var(t, name) ==
    LET u == lookup_user_var(t, name)
    IN  IF u # Unbound THEN u
        ELSE IF name \in DOMAIN t.builtins THEN t.builtins[name]
        ELSE Unbound

\* _set_var that also replaces a builtin of the same name
set_var_builtin(t, name, value) ==
    LET u == IF name \in DOMAIN t.builtins
             THEN [t EXCEPT !.builtins[name] = value] ELSE t
    IN  IF u.local_scopes # <<>>
        THEN [u EXCEPT !.local_scopes[Len(u.local_scopes)][name] = value]
        ELSE [u EXCEPT !.env[name] = value]

\* _set_var that always writes to the module environment
set_var_env(t, name, value) == [t EXCEPT !.env[name] = value]

\* Tree._set_var
set_var(t, name, value) ==
    IF t.local_scopes # <<>>
    THEN [t EXCEPT !.local_scopes[Len(t.local_scopes)][name] = value]
    ELSE [t EXCEPT !.env[name] = value]

\* Tree._current_scope, as the position of the scope: 0 is env
current_scope(t) == Len(t.local_scopes)

scope_get(t, sc, name) ==
    IF sc = 0 THEN t.env[name] ELSE t.local_scopes[sc][name]

scope_put(t, sc, name, value) ==
    IF sc = 0 THEN [t EXCEPT !.env[name] = value]
    ELSE [t EXCEPT !.local_scopes[sc][name] = value]

\* ---------------------------------------------------------------- init
Init ==
    /\ evs = <<TreeInit(Cwd)>>
    /\ module_cache = [p \in Paths |-> 0]
    /\ loading = {}
    /\ heap = <<>>
    /\ ctl = <<>>
    /\ signal = NoSignal
    /\ last = Nothing
    /\ outcome = Returned
    /\ evalCount = [p \in Paths |-> 0]
    /\ exported = <<>>
    /\ budget = [loads |-> MaxLoads, frames |-> MaxCtl]

\* ---------------------------------------------------------------- run
\* run on a new evaluator instead of E
run_fresh ==
    /\ ctl = <<>>
    /\ ctl' = <<Frame("run", 1)>>
    /\ outcome' = Returned
    /\ evs' = [evs EXCEPT ![1] = TreeInit(Cwd)]
    /\ last' = Done("run", NoSignal, NoneV, Frame("run", 1))
    /\ UNCHANGED <<module_cache, loading, heap, signal, evalCount, exported, budget>>

\* run(src), lines 73-79: current_dir is the cwd, E.transform(tree) starts
run ==
    /\ ctl = <<>>
    /\ ctl' = <<Frame("run", 1)>>
    /\ outcome' = Returned
    /\ evs' = [evs EXCEPT ![1].current_dir = Cwd]
    /\ last' = Done("run", NoSignal, NoneV, Frame("run", 1))
    /\ UNCHANGED <<module_cache, loading, heap, signal, evalCount, exported, budget>>

\* run_file(path): run(src, source_path=path), current_dir is the file's directory
run_file ==
    /\ ctl = <<>>
    /\ ctl' = <<Frame("run", 1)>>
    /\ outcome' = Returned
    /\ \E source_path \in Files :
          evs' = [evs EXCEPT ![1].current_dir = parent(source_path)]
    /\ last' = Done("run", NoSignal, NoneV, Frame("run", 1))
    /\ UNCHANGED <<module_cache, loading, heap, signal, evalCount, exported, budget>>

\* run(src): E.transform(tree) returned, or raised and run wraps the error
run_end ==
    /\ ctl # <<>> /\ Top.kind = "run"
    /\ \/ /\ signal.kind = "none"
          /\ outcome' = Returned
       \/ /\ signal.kind # "none"
          /\ outcome' = Raised(signal.msg)
    /\ ctl' = <<>>
    /\ signal' = NoSignal
    /\ last' = Nothing
    /\ UNCHANGED <<evs, module_cache, loading, heap, evalCount, exported, budget>>

\* ---------------------------------------------------------------- expressions
IntLits == {IntV(1)}
Items == {IntV(2)}

\* the values an expression of the running code can produce without a call:
\* a literal, or Tree.var (a name resolved by _lookup_var)
ExprValues(t) ==
    IntLits \cup ({lookup_var(t, n) : n \in Names} \ {Unbound})

NameError == ErrorSig(<<Tok("NameError", <<>>)>>)
TypeError == ErrorSig(<<Tok("TypeError", <<>>)>>)

\* any expression or statement may fail (ZeroDivisionError, undefined variable, ...)
runtime_error ==
    /\ ExprCtx
    /\ signal' = ErrorSig(<<Tok("Error", <<>>)>>)
    /\ last' = Nothing
    /\ UNCHANGED <<evs, module_cache, loading, heap, ctl, outcome, evalCount, exported, budget>>

\* Tree.assign_var, the right-hand side a literal
assign_var ==
    /\ StmtCtx
    /\ \E name \in Names, value \in IntLits :
          /\ evs' = [evs EXCEPT ![cur] = set_var(T, name, value)]
          /\ last' = Done("assign_var", NoSignal, value, [Top EXCEPT !.name = name])
    /\ UNCHANGED <<module_cache, loading, heap, ctl, signal, outcome, evalCount, exported, budget>>

\* Tree.assign_var, the right-hand side a name (Tree.var)
assign_var_name ==
    /\ StmtCtx
    /\ \E name \in Names, n \in Names :
          IF lookup_var(T, n) = Unbound
          THEN signal' = NameError /\ UNCHANGED evs
          ELSE evs' = [evs EXCEPT ![cur] = set_var(T, name, lookup_var(T, n))]
               /\ UNCHANGED signal
    /\ last' = Nothing
    /\ UNCHANGED <<module_cache, loading, heap, ctl, outcome, evalCount, exported, budget>>

\* Tree.assign_index; the only indexable objects of the model are mappings
assign_index ==
    /\ StmtCtx
    /\ \E name \in Names, index \in Names, value \in IntLits :
          LET target == lookup_user_var(T, name)
          IN  IF target = Unbound
              THEN signal' = NameError /\ UNCHANGED heap
              ELSE IF target.t = "ref"
              THEN heap' = [heap EXCEPT ![target.a][index] = value] /\ UNCHANGED signal
              ELSE signal' = TypeError /\ UNCHANGED heap
    /\ last' = Nothing
    /\ UNCHANGED <<evs, module_cache, loading, ctl, outcome, evalCount, exported, budget>>

\* ---------------------------------------------------------------- lists
\* Tree.list_literal: the literals of the programs are [1, 2, ...]
list_literal(n) == [k \in 1..n |-> IntV(k)]

\* Tree.assign_var, the right-hand side a list literal: a new list object
assign_list ==
    /\ StmtCtx
    /\ Len(heap) < MaxLists
    /\ \E name \in Names, n \in 0..MaxLen :
          /\ heap' = Append(heap, list_literal(n))
          /\ exported' = Append(exported, list_literal(n))
          /\ evs' = [evs EXCEPT ![cur] = set_var(T, name, ListV(Len(heap) + 1))]
    /\ last' = Nothing
    /\ UNCHANGED <<module_cache, loading, ctl, signal, outcome, evalCount, budget>>

\* the index expressions of the programs that are numbers or booleans
IndexValues ==
    {IntV(i) : i \in (0 - MaxLen - 1)..(MaxLen + 1)}
       \cup {BoolV(0), BoolV(1), FloatV(1)}

\* Python's list.__setitem__ with an int (bool is a subclass of int): a negative
\* index counts from the end; 0 stands for IndexError
list_position(xs, index) ==
    LET i == IF index.a < 0 THEN index.a + Len(xs) ELSE index.a
    IN  IF 0 <= i /\ i < Len(xs) THEN i + 1 ELSE 0

\* Tree.assign_index, the index a number or a boolean
assign_index_number ==
    /\ StmtCtx
    /\ \E name \in Names, index \in IndexValues, value \in {IntV(9)} :
          LET target == lookup_user_var(T, name)
          IN  /\ IF target = Unbound
                 THEN signal' = NameError /\ UNCHANGED heap
                 ELSE IF target.t = "list"
                 THEN IF index.t \notin {"int", "bool"}
                      THEN /\ signal' = ErrorSig(<<Tok("TypeError: list index must be int", <<>>)>>)
                           /\ UNCHANGED heap
                      ELSE IF list_position(heap[target.a], index) = 0
                      THEN /\ signal' = ErrorSig(<<Tok("IndexError", <<>>)>>)
                           /\ UNCHANGED heap
                      ELSE /\ heap' = [heap EXCEPT ![target.a] =
                                         [@ EXCEPT ![list_position(@, index)] = value]]
                           /\ UNCHANGED signal
                 ELSE IF target.t = "ref"
                 THEN /\ heap' = [heap EXCEPT ![target.a] = (index :> value) @@ @]
                      /\ UNCHANGED signal
                 ELSE signal' = TypeError /\ UNCHANGED heap
              /\ last' = Done("assign_index", NoSignal, index, [Top EXCEPT !.name = name])
    /\ UNCHANGED <<evs, module_cache, loading, ctl, outcome, evalCount, exported, budget>>

\* ---------------------------------------------------------------- functions
\* the functions of the programs have one parameter
param_names == <<"m">>

\* Tree.func_def: the callable closes over self (the evaluator) only
func_def ==
    /\ StmtCtx
    /\ \E func_name \in Names :
          evs' = [evs EXCEPT ![cur] = set_var(T, func_name, FnV(cur))]
    /\ last' = Nothing
    /\ UNCHANGED <<module_cache, loading, heap, ctl, signal, outcome, evalCount, exported, budget>>

\* user_function, lines 160-165: local_env, local_scopes.append, function_depth += 1
user_function_enter(t, args) ==
    LET local_env == [n \in Names |->
                        IF \E i \in 1..Len(param_names) : param_names[i] = n
                        THEN args[CHOOSE i \in 1..Len(param_names) : param_names[i] = n]
                        ELSE Unbound]
    IN  [t EXCEPT !.local_scopes = Append(@, local_env),
                  !.function_depth = @ + 1]

\* the finally clause without local_scopes.pop()
user_function_finally_nopop(t) ==
    [t EXCEPT !.function_depth = @ - 1]

\* user_function, lines 170-172: the finally clause
user_function_finally(t) ==
    [t EXCEPT !.function_depth = @ - 1,
              !.local_scopes = Front(@)]

\* fn(*args) with the scope pushed before the arity is checked
call_value_push_first(fn, args) ==
    IF fn.t = "builtin"
    THEN /\ last' = Done("builtin", NoSignal, IF fn.a = 3 THEN IntV(1) ELSE NoneV,
                         Frame("none", 0))
         /\ UNCHANGED <<evs, ctl, signal>>
    ELSE IF fn.t # "fn"
    THEN /\ signal' = TypeError
         /\ last' = Nothing
         /\ UNCHANGED <<evs, ctl>>
    ELSE IF Len(args) # Len(param_names)
    THEN /\ signal' = ErrorSig(<<Tok("TypeError: arity", <<>>)>>)
         /\ last' = Done("call_refused", NoSignal, IntV(Len(args)), Frame("call", fn.a))
         /\ evs' = [evs EXCEPT ![fn.a] =
                       [@ EXCEPT !.local_scopes = Append(@, EmptyScope),
                                 !.function_depth = @ + 1]]
         /\ UNCHANGED ctl
    ELSE /\ Len(ctl) < budget.frames
         /\ evs' = [evs EXCEPT ![fn.a] = user_function_enter(@, args)]
         /\ ctl' = Append(ctl, [Frame("call", fn.a) EXCEPT
                                   !.base = Len(evs[fn.a].local_scopes),
                                   !.ld0 = evs[fn.a].loop_depth,
                                   !.fd0 = evs[fn.a].function_depth])
         /\ last' = Nothing
         /\ UNCHANGED signal

\* fn(*args) for the value fn: a host builtin, a user function, or not callable
call_value(fn, args) ==
    IF fn.t = "builtin"
    THEN /\ last' = Done("builtin", NoSignal, IF fn.a = 3 THEN IntV(1) ELSE NoneV,
                         Frame("none", 0))
         /\ UNCHANGED <<evs, ctl, signal>>
    ELSE IF fn.t # "fn"
    THEN /\ signal' = TypeError
         /\ last' = Nothing
         /\ UNCHANGED <<evs, ctl>>
    ELSE IF Len(args) # Len(param_names)
    THEN /\ signal' = ErrorSig(<<Tok("TypeError: arity", <<>>)>>)
         /\ last' = Done("call_refused", NoSignal, IntV(Len(args)), Frame("call", fn.a))
         /\ UNCHANGED <<evs, ctl>>
    ELSE /\ Len(ctl) < budget.frames
         /\ evs' = [evs EXCEPT ![fn.a] = user_function_enter(@, args)]
         /\ ctl' = Append(ctl, [Frame("call", fn.a) EXCEPT
                                   !.base = Len(evs[fn.a].local_scopes),
                                   !.ld0 = evs[fn.a].loop_depth,
                                   !.fd0 = evs[fn.a].function_depth])
         /\ last' = Nothing
         /\ UNCHANGED signal

ArgLists(t) == {<<>>} \cup {<<v>> : v \in ExprValues(t)}

\* Tree.func_call
func_call ==
    /\ ExprCtx
    /\ \E n \in Names, args \in ArgLists(T) :
          LET fn == lookup_var(T, n)
          IN  IF fn = Unbound
              THEN signal' = NameError /\ UNCHANGED <<evs, ctl>> /\ last' = Nothing
              ELSE call_value(fn, args)
    /\ UNCHANGED <<module_cache, loading, heap, outcome, evalCount, exported, budget>>

\* Tree.module_func_call
module_func_call ==
    /\ ExprCtx
    /\ \E module_name \in Names, member_name \in Names, args \in ArgLists(T) :
          LET mod == lookup_user_var(T, module_name)
          IN  IF mod = Unbound \/ mod.t # "ref"
              THEN signal' = NameError /\ UNCHANGED <<evs, ctl>> /\ last' = Nothing
              ELSE IF heap[mod.a][member_name] = Unbound
              THEN signal' = NameError /\ UNCHANGED <<evs, ctl>> /\ last' = Nothing
              ELSE call_value(heap[mod.a][member_name], args)
    /\ UNCHANGED <<module_cache, loading, heap, outcome, evalCount, exported, budget>>

\* user_function, lines 166-172: the body ended, or an exception leaves it
user_function_exit ==
    /\ ctl # <<>> /\ Top.kind = "call"
    /\ evs' = [evs EXCEPT ![cur] = user_function_finally(@)]
    /\ ctl' = Front(ctl)
    /\ signal' = IF signal.kind = "return" THEN NoSignal ELSE signal
    /\ last' = Done("call_exit", signal,
                    IF signal.kind = "return" THEN signal.val ELSE NoneV, Top)
    /\ UNCHANGED <<module_cache, loading, heap, outcome, evalCount, exported, budget>>

\* return_stmt without the test of line 261
return_stmt_unchecked ==
    /\ StmtCtx
    /\ \E value \in {NoneV, IntV(2)} : signal' = FunctionReturn(value)
    /\ last' = Done("return_stmt", NoSignal, NoneV, Top)
    /\ UNCHANGED <<evs, module_cache, loading, heap, ctl, outcome, evalCount, exported, budget>>

\* Tree.return_stmt
return_stmt ==
    /\ StmtCtx
    /\ IF T.function_depth <= 0
       THEN signal' = ErrorSig(<<Tok("RuntimeError: return used outside of function", <<>>)>>)
       ELSE \E value \in {NoneV, IntV(2)} : signal' = FunctionReturn(value)
    /\ last' = Done("return_stmt", NoSignal, NoneV, Top)
    /\ UNCHANGED <<evs, module_cache, loading, heap, ctl, outcome, evalCount, exported, budget>>

\* ---------------------------------------------------------------- loops
\* Tree.break_stmt
break_stmt ==
    /\ StmtCtx
    /\ IF T.loop_depth <= 0
       THEN signal' = ErrorSig(<<Tok("RuntimeError: break used outside of loop", <<>>)>>)
       ELSE signal' = LoopBreak
    /\ last' = Nothing
    /\ UNCHANGED <<evs, module_cache, loading, heap, ctl, outcome, evalCount, exported, budget>>

\* Tree.continue_stmt
continue_stmt ==
    /\ StmtCtx
    /\ IF T.loop_depth <= 0
       THEN signal' = ErrorSig(<<Tok("RuntimeError: continue used outside of loop", <<>>)>>)
       ELSE signal' = LoopContinue
    /\ last' = Nothing
    /\ UNCHANGED <<evs, module_cache, loading, heap, ctl, outcome, evalCount, exported, budget>>

\* the finally clause resetting the depth instead of decrementing it
while_finally_reset(t) == [t EXCEPT !.loop_depth = 0]

\* while_stmt, lines 212-213: the finally clause
while_finally(t) == [t EXCEPT !.loop_depth = @ - 1]

\* the finally clause without the restoration of the loop variable
for_finally_norestore(t, fr) == [t EXCEPT !.loop_depth = @ - 1]

\* for_stmt, lines 241-246: the finally clause
for_finally(t, fr) ==
    LET u == [t EXCEPT !.loop_depth = @ - 1]
    IN  IF fr.had THEN scope_put(u, fr.sc, fr.name, fr.old)
        ELSE scope_put(u, fr.sc, fr.name, Unbound)

loop_finally(t, fr) ==
    IF fr.kind = "while" THEN while_finally(t) ELSE for_finally(t, fr)

\* while_stmt, line 203: loop_depth += 1, then the guard is evaluated
while_stmt ==
    /\ StmtCtx
    /\ Len(ctl) < budget.frames
    /\ evs' = [evs EXCEPT ![cur].loop_depth = @ + 1]
    /\ ctl' = Append(ctl, [Frame("while", cur) EXCEPT
                              !.phase = "cond", !.ld0 = T.loop_depth])
    /\ last' = Nothing
    /\ UNCHANGED <<module_cache, loading, heap, signal, outcome, evalCount, exported, budget>>

\* while_stmt, line 205: the guard's value
while_guard ==
    /\ ctl # <<>> /\ signal.kind = "none"
    /\ Top.kind = "while" /\ Top.phase = "cond"
    /\ \/ /\ ctl' = [ctl EXCEPT ![Len(ctl)].phase = "body"]
          /\ last' = Nothing
          /\ UNCHANGED evs
       \/ /\ ctl' = Front(ctl)
          /\ evs' = [evs EXCEPT ![cur] = while_finally(@)]
          /\ last' = Done("loop_exit", NoSignal, NoneV, Top)
    /\ UNCHANGED <<module_cache, loading, heap, signal, outcome, evalCount, exported, budget>>

\* for_stmt, lines 217-231
for_stmt ==
    /\ StmtCtx
    /\ \E loop_var \in Names :
          \/ /\ signal' = ErrorSig(<<Tok("TypeError: for target is not iterable", <<>>)>>)
             /\ UNCHANGED <<evs, ctl>>
          \/ /\ Len(ctl) < budget.frames
             /\ \E n \in 0..MaxIter :
                   LET scope == current_scope(T)
                       had_old == scope_get(T, scope, loop_var) # Unbound
                       old_value == IF had_old THEN scope_get(T, scope, loop_var) ELSE NoneV
                   IN  ctl' = Append(ctl, [Frame("for", cur) EXCEPT
                                              !.phase = "next", !.ld0 = T.loop_depth,
                                              !.pre = scope_get(T, scope, loop_var),
                                              !.name = loop_var, !.sc = scope,
                                              !.had = had_old, !.old = old_value,
                                              !.rem = n])
             /\ evs' = [evs EXCEPT ![cur].loop_depth = @ + 1]
             /\ UNCHANGED signal
    /\ last' = Nothing
    /\ UNCHANGED <<module_cache, loading, heap, outcome, evalCount, exported, budget>>

\* for_stmt, lines 233-234 and 241-246: the next item, or the iterator is exhausted
for_next ==
    /\ ctl # <<>> /\ signal.kind = "none"
    /\ Top.kind = "for" /\ Top.phase = "next"
    /\ IF Top.rem > 0
       THEN /\ \E item \in Items :
                  evs' = [evs EXCEPT ![cur] = scope_put(@, Top.sc, Top.name, item)]
            /\ ctl' = [ctl EXCEPT ![Len(ctl)].phase = "body", ![Len(ctl)].rem = @ - 1]
            /\ last' = Nothing
       ELSE /\ evs' = [evs EXCEPT ![cur] = for_finally(@, Top)]
            /\ ctl' = Front(ctl)
            /\ last' = Done("loop_exit", NoSignal, NoneV, Top)
    /\ UNCHANGED <<module_cache, loading, heap, signal, outcome, evalCount, exported, budget>>

\* while_stmt line 207 / for_stmt line 236: the block returned
body_end ==
    /\ ctl # <<>> /\ signal.kind = "none"
    /\ Top.kind \in LoopKinds /\ Top.phase = "body"
    /\ ctl' = [ctl EXCEPT ![Len(ctl)].phase = IF Top.kind = "while" THEN "cond" ELSE "next"]
    /\ last' = Nothing
    /\ UNCHANGED <<evs, module_cache, loading, heap, signal, outcome, evalCount, exported, budget>>

\* loops that catch FunctionReturn as they catch LoopBreak
loop_except_catching_return ==
    /\ ctl # <<>> /\ signal.kind # "none"
    /\ Top.kind \in LoopKinds
    /\ IF Top.phase = "body" /\ signal.kind = "continue"
       THEN /\ ctl' = [ctl EXCEPT ![Len(ctl)].phase =
                                     IF Top.kind = "while" THEN "cond" ELSE "next"]
            /\ signal' = NoSignal
            /\ last' = Done("loop_continue", signal, NoneV, Top)
            /\ UNCHANGED evs
       ELSE /\ ctl' = Front(ctl)
            /\ evs' = [evs EXCEPT ![cur] = loop_finally(@, Top)]
            /\ signal' = IF Top.phase = "body" /\ signal.kind \in {"break", "return"}
                         THEN NoSignal ELSE signal
            /\ last' = Done("loop_exit", signal, NoneV, Top)
    /\ UNCHANGED <<module_cache, loading, heap, outcome, evalCount, exported, budget>>

\* loops without the try/finally of lines 204-213 and 232-246: loop_depth is
\* decremented only when the loop ends or is left by break
loop_except_no_finally ==
    /\ ctl # <<>> /\ signal.kind # "none"
    /\ Top.kind \in LoopKinds
    /\ IF Top.phase = "body" /\ signal.kind = "continue"
       THEN /\ ctl' = [ctl EXCEPT ![Len(ctl)].phase =
                                     IF Top.kind = "while" THEN "cond" ELSE "next"]
            /\ signal' = NoSignal
            /\ last' = Done("loop_continue", signal, NoneV, Top)
            /\ UNCHANGED evs
       ELSE /\ ctl' = Front(ctl)
            /\ IF Top.phase = "body" /\ signal.kind = "break"
               THEN evs' = [evs EXCEPT ![cur] = loop_finally(@, Top)]
               ELSE UNCHANGED evs
            /\ signal' = IF Top.phase = "body" /\ signal.kind = "break"
                         THEN NoSignal ELSE signal
            /\ last' = Done("loop_exit", signal, NoneV, Top)
    /\ UNCHANGED <<module_cache, loading, heap, outcome, evalCount, exported, budget>>

\* while_stmt lines 208-213 / for_stmt lines 237-246: an exception reaches the loop
loop_except ==
    /\ ctl # <<>> /\ signal.kind # "none"
    /\ Top.kind \in LoopKinds
    /\ IF Top.phase = "body" /\ signal.kind = "continue"
       THEN /\ ctl' = [ctl EXCEPT ![Len(ctl)].phase =
                                     IF Top.kind = "while" THEN "cond" ELSE "next"]
            /\ signal' = NoSignal
            /\ last' = Done("loop_continue", signal, NoneV, Top)
            /\ UNCHANGED evs
       ELSE /\ ctl' = Front(ctl)
            /\ evs' = [evs EXCEPT ![cur] = loop_finally(@, Top)]
            /\ signal' = IF Top.phase = "body" /\ signal.kind = "break"
                         THEN NoSignal ELSE signal
            /\ last' = Done("loop_exit", signal, NoneV, Top)
    /\ UNCHANGED <<module_cache, loading, heap, outcome, evalCount, exported, budget>>

\* ---------------------------------------------------------------- module loader
Aliases == {"", "length"}

\* load_module, lines 45-46
load_cached(path, module_name) ==
    /\ module_cache[path] # 0
    /\ evs' = [evs EXCEPT ![cur] = set_var(T, module_name, RefV(module_cache[path]))]
    /\ last' = Done("load_cached", NoSignal, RefV(module_cache[path]),
                    [Frame("load", cur) EXCEPT !.path = path, !.name = module_name])
    /\ UNCHANGED <<module_cache, loading, heap, ctl, signal, evalCount, exported, budget>>

\* load_module, lines 47-48
load_circular(path) ==
    /\ module_cache[path] = 0
    /\ path \in loading
    /\ signal' = ErrorSig(<<Tok("Circular module import", path)>>)
    /\ last' = Done("load_refused", NoSignal, NoneV, [Frame("load", cur) EXCEPT !.path = path])
    /\ UNCHANGED <<evs, module_cache, loading, heap, ctl, evalCount, exported, budget>>

\* load_module, lines 50-53, 59-64: the file is missing, cannot be read, or does
\* not parse. When read_text raises another error than FileNotFoundError, src is
\* not bound and the handler of line 62, evaluating pretty_err(src, ex), raises
\* UnboundLocalError in place of the module error
load_unreadable(path) ==
    /\ module_cache[path] = 0
    /\ path \notin loading
    /\ IF path \in Unreadable
       THEN signal' = ErrorSig(<<Tok("UnboundLocalError: src", <<>>)>>)
       ELSE IF path \notin Files
       THEN signal' = ErrorSig(<<Tok("Module not found", path)>>)
       ELSE signal' = ErrorSig(<<Tok("Module error in", path), Tok("Syntax error", <<>>)>>)
    /\ last' = Done("load_refused", NoSignal, NoneV, [Frame("load", cur) EXCEPT !.path = path])
    /\ UNCHANGED <<evs, module_cache, loading, heap, ctl, evalCount, exported, budget>>

\* load_module starting the module's evaluator with the importer's environment
load_start_sharing(path, module_name) ==
    /\ module_cache[path] = 0
    /\ path \notin loading
    /\ path \in Files
    /\ Len(ctl) < budget.frames
    /\ budget.loads > 0
    /\ budget' = [budget EXCEPT !.loads = @ - 1]
    /\ loading' = loading \cup {path}
    /\ evs' = Append(evs, [TreeInit(parent(path)) EXCEPT !.env = T.env])
    /\ ctl' = Append(ctl, [Frame("load", Len(evs) + 1) EXCEPT
                              !.path = path, !.name = module_name])
    /\ evalCount' = [evalCount EXCEPT ![path] = @ + 1]
    /\ last' = Nothing
    /\ UNCHANGED <<module_cache, heap, signal, exported>>

\* load_module storing the cache entry before the file is evaluated
load_start_caching(path, module_name) ==
    /\ module_cache[path] = 0
    /\ path \notin loading
    /\ path \in Files
    /\ Len(ctl) < budget.frames
    /\ budget.loads > 0
    /\ budget' = [budget EXCEPT !.loads = @ - 1]
    /\ loading' = loading \cup {path}
    /\ evs' = Append(evs, TreeInit(parent(path)))
    /\ ctl' = Append(ctl, [Frame("load", Len(evs) + 1) EXCEPT
                              !.path = path, !.name = module_name])
    /\ evalCount' = [evalCount EXCEPT ![path] = @ + 1]
    /\ heap' = Append(heap, EmptyScope)
    /\ exported' = Append(exported, EmptyScope)
    /\ module_cache' = [module_cache EXCEPT ![path] = Len(heap) + 1]
    /\ last' = Nothing
    /\ UNCHANGED signal

\* load_module without the cache test of line 45
load_start_uncached(path, module_name) ==
    /\ path \notin loading
    /\ path \in Files
    /\ Len(ctl) < budget.frames
    /\ budget.loads > 0
    /\ budget' = [budget EXCEPT !.loads = @ - 1]
    /\ loading' = loading \cup {path}
    /\ evs' = Append(evs, TreeInit(parent(path)))
    /\ ctl' = Append(ctl, [Frame("load", Len(evs) + 1) EXCEPT
                              !.path = path, !.name = module_name])
    /\ evalCount' = [evalCount EXCEPT ![path] = @ + 1]
    /\ last' = Nothing
    /\ UNCHANGED <<module_cache, heap, signal, exported>>

\* load_module without the test of lines 47-48: a path being loaded is loaded again
load_start_reentrant(path, module_name) ==
    /\ module_cache[path] = 0
    /\ path \in Files
    /\ Len(ctl) < budget.frames
    /\ budget.loads > 0
    /\ budget' = [budget EXCEPT !.loads = @ - 1]
    /\ loading' = loading \cup {path}
    /\ evs' = Append(evs, TreeInit(parent(path)))
    /\ ctl' = Append(ctl, [Frame("load", Len(evs) + 1) EXCEPT
                              !.path = path, !.name = module_name])
    /\ evalCount' = [evalCount EXCEPT ![path] = @ + 1]
    /\ last' = Nothing
    /\ UNCHANGED <<module_cache, heap, signal, exported>>

\* load_module, lines 50-55: a fresh evaluator starts on the file's top level
load_start(path, module_name) ==
    /\ module_cache[path] = 0
    /\ path \notin loading
    /\ path \in Files
    /\ Len(ctl) < budget.frames
    /\ budget.loads > 0
    /\ budget' = [budget EXCEPT !.loads = @ - 1]
    /\ loading' = loading \cup {path}
    /\ evs' = Append(evs, TreeInit(parent(path)))
    /\ ctl' = Append(ctl, [Frame("load", Len(evs) + 1) EXCEPT
                              !.path = path, !.name = module_name])
    /\ evalCount' = [evalCount EXCEPT ![path] = @ + 1]
    /\ last' = Nothing
    /\ UNCHANGED <<module_cache, heap, signal, exported>>

\* Tree.import_stmt
import_stmt ==
    /\ StmtCtx
    /\ \E raw_path \in RawPaths, alias \in Aliases :
          LET path == resolve(raw_path, T.current_dir)
              module_name == IF alias # "" THEN alias ELSE stem(raw_path)
          IN  \/ load_cached(path, module_name)
              \/ load_circular(path)
              \/ load_unreadable(path)
              \/ load_start(path, module_name)
    /\ UNCHANGED outcome

\* load_module, lines 56-58 and 64, then import_stmt line 141
load_return ==
    /\ ctl # <<>> /\ signal.kind = "none"
    /\ Top.kind = "load"
    /\ LET exports == T.env
           importer == ctl[Len(ctl) - 1].ev
       IN  /\ heap' = Append(heap, exports)
           /\ exported' = Append(exported, exports)
           /\ module_cache' = [module_cache EXCEPT ![Top.path] = Len(heap) + 1]
           /\ evs' = [evs EXCEPT ![importer] =
                         set_var(@, Top.name, RefV(Len(heap) + 1))]
    /\ loading' = loading \ {Top.path}
    /\ ctl' = Front(ctl)
    /\ last' = Done("load_exit", NoSignal, RefV(Len(heap) + 1), Top)
    /\ UNCHANGED <<signal, outcome, evalCount, budget>>

\* load_module without the finally clause: a failed load stays in loading
load_except_keeping ==
    /\ ctl # <<>> /\ signal.kind # "none"
    /\ Top.kind = "load"
    /\ signal' = ErrorSig(<<Tok("Module error in", Top.path)>> \o signal.msg)
    /\ ctl' = Front(ctl)
    /\ last' = Done("load_exit", signal, NoneV, Top)
    /\ UNCHANGED <<evs, module_cache, loading, heap, outcome, evalCount, exported, budget>>

\* load_module storing the exports in a finally clause: also when the load fails
load_except_caching ==
    /\ ctl # <<>> /\ signal.kind # "none"
    /\ Top.kind = "load"
    /\ signal' = ErrorSig(<<Tok("Module error in", Top.path)>> \o signal.msg)
    /\ loading' = loading \ {Top.path}
    /\ heap' = Append(heap, T.env)
    /\ exported' = Append(exported, T.env)
    /\ module_cache' = [module_cache EXCEPT ![Top.path] = Len(heap) + 1]
    /\ ctl' = Front(ctl)
    /\ last' = Done("load_exit", signal, NoneV, Top)
    /\ UNCHANGED <<evs, outcome, evalCount, budget>>

\* load_module, lines 61-64: an exception leaves the module's top level
load_except ==
    /\ ctl # <<>> /\ signal.kind # "none"
    /\ Top.kind = "load"
    /\ signal' = ErrorSig(<<Tok("Module error in", Top.path)>> \o signal.msg)
    /\ loading' = loading \ {Top.path}
    /\ ctl' = Front(ctl)
    /\ last' = Done("load_exit", signal, NoneV, Top)
    /\ UNCHANGED <<evs, module_cache, heap, outcome, evalCount, exported, budget>>

\* programs without imports: the evaluator E alone, assigning literals
NextEval ==
    \/ run
    \/ run_end
    \/ runtime_error
    \/ assign_var
    \/ func_def
    \/ func_call
    \/ user_function_exit
    \/ return_stmt
    \/ break_stmt
    \/ continue_stmt
    \/ while_stmt
    \/ while_guard
    \/ for_stmt
    \/ for_next
    \/ body_end
    \/ loop_except

SpecEval == Init /\ [][NextEval]_vars

\* programs of imports and indexed assignments: the loader
NextLoader ==
    \/ run
    \/ run_file
    \/ run_end
    \/ runtime_error
    \/ assign_index
    \/ import_stmt
    \/ load_return
    \/ load_except

SpecLoader == Init /\ [][NextLoader]_vars

\* a loader that may evaluate MaxLoadsCalls files
InitCalls ==
    /\ evs = <<TreeInit(Cwd)>>
    /\ module_cache = [p \in Paths |-> 0]
    /\ loading = {}
    /\ heap = <<>>
    /\ ctl = <<>>
    /\ signal = NoSignal
    /\ last = Nothing
    /\ outcome = Returned
    /\ evalCount = [p \in Paths |-> 0]
    /\ exported = <<>>
    /\ budget = [loads |-> MaxLoadsCalls, frames |-> MaxCtl]

\* programs that bind names at module level: assignments, indexed assignments,
\* function definitions, for loops and imports
NextBind ==
    \/ run
    \/ run_end
    \/ assign_var
    \/ assign_index
    \/ func_def
    \/ for_stmt
    \/ for_next
    \/ body_end
    \/ loop_except
    \/ import_stmt
    \/ load_return
    \/ load_except

SpecBind == InitCalls /\ [][NextBind]_vars

\* programs of imports, function definitions, assignments of names, calls and
\* returns
NextCalls ==
    \/ run
    \/ run_end
    \/ runtime_error
    \/ assign_var_name
    \/ func_def
    \/ func_call
    \/ module_func_call
    \/ user_function_exit
    \/ return_stmt
    \/ import_stmt
    \/ load_return
    \/ load_except

SpecCalls == InitCalls /\ [][NextCalls]_vars

\* programs of one evaluator whose functions nest loops
InitNested ==
    /\ evs = <<TreeInit(Cwd)>>
    /\ module_cache = [p \in Paths |-> 0]
    /\ loading = {}
    /\ heap = <<>>
    /\ ctl = <<>>
    /\ signal = NoSignal
    /\ last = Nothing
    /\ outcome = Returned
    /\ evalCount = [p \in Paths |-> 0]
    /\ exported = <<>>
    /\ budget = [loads |-> 0, frames |-> MaxCtlNested]

NextNested ==
    \/ run
    \/ run_end
    \/ func_def
    \/ func_call
    \/ user_function_exit
    \/ return_stmt
    \/ break_stmt
    \/ while_stmt
    \/ while_guard
    \/ for_stmt
    \/ for_next
    \/ body_end
    \/ loop_except

SpecNested == InitNested /\ [][NextNested]_vars

\* programs of two evaluators whose functions loop and are called through
\* their module (module.member(...))
InitSignals ==
    /\ evs = <<TreeInit(Cwd)>>
    /\ module_cache = [p \in Paths |-> 0]
    /\ loading = {}
    /\ heap = <<>>
    /\ ctl = <<>>
    /\ signal = NoSignal
    /\ last = Nothing
    /\ outcome = Returned
    /\ evalCount = [p \in Paths |-> 0]
    /\ exported = <<>>
    /\ budget = [loads |-> MaxLoadsCalls, frames |-> MaxCtlNested]

NextSignals ==
    \/ run
    \/ run_end
    \/ func_def
    \/ module_func_call
    \/ user_function_exit
    \/ return_stmt
    \/ break_stmt
    \/ continue_stmt
    \/ while_stmt
    \/ while_guard
    \/ body_end
    \/ loop_except
    \/ import_stmt
    \/ load_return
    \/ load_except

SpecSignals == InitSignals /\ [][NextSignals]_vars

\* programs that build lists and assign to their elements
NextIndex ==
    \/ run
    \/ run_end
    \/ assign_var
    \/ assign_list
    \/ assign_index
    \/ assign_index_number

SpecIndex == Init /\ [][NextIndex]_vars

\* module files importing one another: the files' texts hold MaxImports import
\* statements that start a load, and the call stack has room for more loads than
\* there are files
InitImports ==
    /\ evs = <<TreeInit(Cwd)>>
    /\ module_cache = [p \in Paths |-> 0]
    /\ loading = {}
    /\ heap = <<>>
    /\ ctl = <<>>
    /\ signal = NoSignal
    /\ last = Nothing
    /\ outcome = Returned
    /\ evalCount = [p \in Paths |-> 0]
    /\ exported = <<>>
    /\ budget = [loads |-> MaxImports, frames |-> MaxCtlNested]

NextImports ==
    \/ run
    \/ run_end
    \/ runtime_error
    \/ assign_index
    \/ import_stmt
    \/ load_return
    \/ load_except

SpecImports == InitImports /\ [][NextImports]_vars

\* the top-level code of a file is a finite sequence of terminating statements:
\* the interpreter reaches the end of the file (load_return) unless a statement
\* raises, and Python hands a raised exception to the handlers of load_module
\* (load_except) and of run (run_end)
SpecImportsFair ==
    /\ SpecImports
    /\ WF_vars(load_return)
    /\ WF_vars(load_except)
    /\ WF_vars(run_end)

\* ================================================================ claims
Mentions(msg, tag, path) == \E i \in 1..Len(msg) : msg[i] = Tok(tag, path)

\* ---------------------------------------------------------------- C1
\* C1, as claimed: for any sequence of loads, failing ones included, the top
\* level of each canonical path is evaluated at most once.
C1_EvaluatedAtMostOnce == \A p \in Paths : evalCount[p] <= 1

\* C1, amended: once a canonical path is in the cache its top level is never
\* evaluated again and its cache entry never changes, and an import of a cached
\* path binds the cached mapping (a path whose load failed is evaluated again).
C1_CachedNeverReevaluated ==
    /\ [](last.what = "load_cached" =>
            LET t == evs[last.fr.ev]
            IN  /\ module_cache[last.fr.path] # 0
                /\ scope_get(t, current_scope(t), last.fr.name)
                      = RefV(module_cache[last.fr.path]))
    /\ [][\A p \in Paths : module_cache[p] # 0 =>
              /\ evalCount'[p] = evalCount[p]
              /\ module_cache'[p] = module_cache[p]]_vars

\* a cached path, evaluated once, has just been imported again
C1_Witness ==
    /\ last.what = "load_cached"
    /\ evalCount[last.fr.path] = 1
    /\ \E p \in Paths : evalCount[p] = 1 /\ module_cache[p] = 0

\* ---------------------------------------------------------------- C2
\* C2: an error that reports a circular import names a path that is being loaded
\* (or whose load the error has already ended), every load the error has ended
\* failed ("Module error in") and none of these paths is in the cache; when the
\* error has reached run, the load of the named path is among the failed ones.
C2_CircularImportFails ==
    /\ \A i \in 1..Len(signal.msg) :
          signal.msg[i].tag = "Circular module import" =>
             LET p == signal.msg[i].path
             IN  /\ module_cache[p] = 0
                 /\ p \in loading \/ Mentions(signal.msg, "Module error in", p)
                 /\ \A j \in 1..Len(signal.msg) :
                       signal.msg[j].tag = "Module error in" =>
                          module_cache[signal.msg[j].path] = 0
                 /\ \A q \in loading : module_cache[q] = 0
    /\ \A i \in 1..Len(outcome.msg) :
          outcome.msg[i].tag = "Circular module import" =>
             LET p == outcome.msg[i].path
             IN  /\ outcome.raised
                 /\ module_cache[p] = 0
                 /\ Mentions(outcome.msg, "Module error in", p)
                 /\ i > 1 /\ module_cache[outcome.msg[i - 1].path] = 0
                 /\ \A j \in 1..Len(outcome.msg) :
                       outcome.msg[j].tag = "Module error in" =>
                          module_cache[outcome.msg[j].path] = 0

\* two files importing each other: run failed with the circular-import error
\* wrapped by the loads of both
C2_Witness ==
    /\ ctl = <<>>
    /\ outcome.raised
    /\ Len(outcome.msg) = 3
    /\ outcome.msg[3].tag = "Circular module import"
    /\ outcome.msg[1] = Tok("Module error in", outcome.msg[3].path)
    /\ outcome.msg[2].tag = "Module error in"
    /\ outcome.msg[2].path # outcome.msg[1].path

\* ---------------------------------------------------------------- C3
\* C3: a mapping in the module cache is immutable after load: it keeps the
\* bindings it was exported with, whatever importers do with it.
C3_CachedMappingImmutable ==
    \A p \in Paths : module_cache[p] # 0 =>
        heap[module_cache[p]] = exported[module_cache[p]]

\* ---------------------------------------------------------------- C4
\* the number of calls of user functions of evaluator e in progress
CallsInProgress(e) ==
    Cardinality({i \in 1..Len(ctl) : ctl[i].kind = "call" /\ ctl[i].ev = e})

\* lookup in the scope chain the claims describe: the call's own local scope,
\* the module environment, the builtins
own_lookup(t, name) ==
    LET own == IF t.local_scopes = <<>> THEN Unbound
               ELSE t.local_scopes[Len(t.local_scopes)][name]
    IN  IF own # Unbound THEN own
        ELSE IF t.env[name] # Unbound THEN t.env[name]
        ELSE IF name \in DOMAIN t.builtins THEN t.builtins[name]
        ELSE Unbound

\* C4: while a function body runs, a name resolves against the call's own
\* local scope, the module environment and the builtins only: never to a
\* binding of a caller's local scope.
C4_CallerLocalsInvisible ==
    ctl # <<>> => \A n \in Names : lookup_var(T, n) = own_lookup(T, n)

\* ---------------------------------------------------------------- C5
\* C5: at a statement, loop_depth > 0 exactly when the statement is lexically
\* inside a loop body (a loop frame lies above the innermost function call or
\* top level), and a break or continue signal is raised only there.
C5_LoopDepthIsLexical ==
    /\ StmtCtx => (T.loop_depth > 0 <=> Top.kind \in LoopKinds)
    /\ signal.kind \in {"break", "continue"} => Top.kind \in LoopKinds

\* ---------------------------------------------------------------- C6
\* C6: when a for loop has ended (iterator exhausted, break, return signal or
\* error), the scope that was current at loop entry binds the loop variable as
\* it did before the loop, or not at all if it did not.
C6_ForRestoresBinding ==
    (last.what = "loop_exit" /\ last.fr.kind = "for") =>
        scope_get(evs[last.fr.ev], last.fr.sc, last.fr.name) = last.fr.pre

\* a for loop over a bound variable was left by a return from inside its body
C6_Witness ==
    /\ last.what = "loop_exit" /\ last.fr.kind = "for"
    /\ last.fr.phase = "body"
    /\ last.sig.kind = "return"
    /\ last.fr.pre = IntV(1)

\* ---------------------------------------------------------------- C7
\* C7: no statement changes an evaluator's builtins; a user binding of a
\* builtin name shadows the builtin, and when a for loop has removed the user
\* binding of a builtin name the name resolves to the builtin again.
C7_BuiltinsShadowedNotMutated ==
    /\ \A e \in 1..Len(evs) :
          /\ evs[e].builtins = TreeInit(Cwd).builtins
          /\ \A n \in Names \cap BuiltinNames :
                lookup_var(evs[e], n) =
                   IF lookup_user_var(evs[e], n) # Unbound
                   THEN lookup_user_var(evs[e], n)
                   ELSE TreeInit(Cwd).builtins[n]
    /\ (/\ last.what = "loop_exit" /\ last.fr.kind = "for"
        /\ last.fr.name \in BuiltinNames
        /\ last.fr.pre = Unbound
        /\ last.fr.sc = 0 /\ evs[last.fr.ev].local_scopes = <<>>)
       => lookup_var(evs[last.fr.ev], last.fr.name)
             = TreeInit(Cwd).builtins[last.fr.name]

\* a for loop over `length` at module level, which had no user binding, ran its
\* body and ended: length is the builtin again
C7_Witness ==
    /\ last.what = "loop_exit" /\ last.fr.kind = "for"
    /\ last.fr.name = "length"
    /\ last.fr.pre = Unbound
    /\ last.fr.phase = "body"
    /\ evs[last.fr.ev].local_scopes = <<>>
    /\ lookup_var(evs[last.fr.ev], "length") = BuiltinV(3)
    /\ \E e \in 1..Len(evs), n \in Names : evs[e].env[n].t = "ref"

\* ---------------------------------------------------------------- C8
\* C8: for every evaluator the local-scope stack is as long as function_depth,
\* which is the number of its user-function calls in progress; and when a call
\* has ended, however it ended, the stack is as long as when the call began.
C8_ScopeStackIsCallDepth ==
    /\ \A e \in 1..Len(evs) :
          /\ Len(evs[e].local_scopes) = evs[e].function_depth
          /\ evs[e].function_depth = CallsInProgress(e)
    /\ last.what = "call_exit" =>
          Len(evs[last.fr.ev].local_scopes) = last.fr.base

\* a call made from a loop body was left by a break signal passing through
C8_Witness ==
    /\ last.what = "call_exit"
    /\ last.sig.kind = "break"
    /\ Len(evs[last.fr.ev].local_scopes) = 0
    /\ ctl # <<>> /\ Top.kind \in LoopKinds

\* ---------------------------------------------------------------- C9
\* the innermost frame that is a function call or a top level (run, load)
Unit ==
    CHOOSE i \in 1..Len(ctl) :
        /\ ctl[i].kind \in {"run", "load", "call"}
        /\ \A j \in (i + 1)..Len(ctl) : ctl[j].kind \in LoopKinds

\* C9: function_depth of an evaluator is the number of its function calls in
\* progress; a return statement at function_depth 0 raises the error and
\* otherwise the return signal; a return signal exists only under a function
\* call of the running evaluator, with no top level in between, and the call
\* it ends returns the carried value.
C9_ReturnOnlyInsideFunction ==
    /\ \A e \in 1..Len(evs) : evs[e].function_depth = CallsInProgress(e)
    /\ signal.kind = "return" =>
          /\ ctl # <<>>
          /\ ctl[Unit].kind = "call"
          /\ ctl[Unit].ev = cur
    /\ last.what = "return_stmt" =>
          IF CallsInProgress(last.fr.ev) = 0
          THEN /\ signal.kind = "error"
               /\ signal.msg[1].tag = "RuntimeError: return used outside of function"
          ELSE signal.kind = "return"
    /\ (last.what = "call_exit" /\ last.sig.kind = "return") =>
          /\ signal = NoSignal
          /\ last.val = last.sig.val

\* a return at the top level of a module that is being imported from inside a
\* function of the importer
C9_Witness ==
    /\ last.what = "return_stmt"
    /\ Len(ctl) >= 2
    /\ Top.kind = "load"
    /\ ctl[Len(ctl) - 1].kind = "call"
    /\ evs[ctl[Len(ctl) - 1].ev].function_depth > 0
    /\ signal.kind = "error"

\* ---------------------------------------------------------------- C10
\* C10: a break signal that reaches a loop body ends that loop only: the signal
\* is consumed, the frames of the enclosing loops are untouched, and loop_depth
\* is what it was before the loop began; a continue signal is consumed by the
\* innermost loop, which goes on to its next iteration.
C10_InnerBreakOnly ==
    /\ []((last.what = "loop_exit" /\ last.sig.kind = "break"
                                   /\ last.fr.phase = "body") =>
             /\ signal = NoSignal
             /\ evs[last.fr.ev].loop_depth = last.fr.ld0
             /\ (ctl # <<>> /\ Top.kind \in LoopKinds) =>
                   Top.phase = "body" /\ evs[Top.ev].loop_depth = Top.ld0 + 1)
    /\ [](last.what = "loop_continue" =>
             /\ signal = NoSignal
             /\ Top.kind = last.fr.kind /\ Top.phase \in {"cond", "next"}
             /\ evs[Top.ev].loop_depth = Top.ld0 + 1)
    /\ [][(signal.kind \in {"break", "continue"} /\ Top.kind \in LoopKinds
                                                 /\ Top.phase = "body") =>
             /\ signal' = NoSignal
             /\ signal.kind = "break" => ctl' = Front(ctl)
             /\ signal.kind = "continue" =>
                   ctl' = [ctl EXCEPT ![Len(ctl)].phase =
                              IF Top.kind = "while" THEN "cond" ELSE "next"]]_vars

\* nested loops: the inner loop was left by a break in its body and the outer
\* loop is running its body
C10_Witness ==
    /\ last.what = "loop_exit" /\ last.sig.kind = "break"
    /\ last.fr.phase = "body"
    /\ ctl # <<>> /\ Top.kind \in LoopKinds
    /\ Top.ev = last.fr.ev
    /\ last.fr.ld0 = 1

\* ---------------------------------------------------------------- C11
\* C11: a return signal that reaches a loop ends the loop at once, with no
\* further iteration or guard evaluation, and goes on unchanged with loop_depth
\* as before the loop; when it reaches the function call it ends the call with
\* the carried value, and loop_depth, function_depth and the local-scope stack
\* are what they were just before the call.
C11_ReturnUnwindsLoopsAndCall ==
    /\ [][(signal.kind = "return" /\ Top.kind \in LoopKinds) =>
             /\ ctl' = Front(ctl)
             /\ signal' = signal
             /\ evs'[cur].loop_depth = Top.ld0]_vars
    /\ [][(signal.kind = "return" /\ Top.kind = "call") =>
             /\ ctl' = Front(ctl)
             /\ signal' = NoSignal
             /\ last' = Done("call_exit", signal, signal.val, Top)
             /\ evs'[cur].loop_depth = Top.ld0
             /\ evs'[cur].function_depth = Top.fd0
             /\ evs'[cur].local_scopes = Front(evs[cur].local_scopes)
             /\ Len(evs'[cur].local_scopes) = Top.base]_vars

\* a return carrying a value was executed in the body of a loop nested in a
\* loop of a function body
C11_Witness ==
    /\ signal.kind = "return" /\ signal.val = IntV(2)
    /\ Len(ctl) = 4
    /\ ctl[2].kind = "call"
    /\ ctl[3].kind \in LoopKinds /\ ctl[3].phase = "body"
    /\ ctl[4].kind \in LoopKinds /\ ctl[4].phase = "body"

\* ---------------------------------------------------------------- C12
\* C12: a plain assignment executed inside a function body changes nothing but
\* the binding of its name in the innermost local scope: the module environment,
\* every outer local scope, the other names of the innermost scope and every
\* other evaluator are as before; the name is bound to the value in that scope.
C12_AssignWritesInnermostOnly ==
    /\ [](last.what = "assign_var" =>
             LET t == evs[last.fr.ev]
             IN  scope_get(t, current_scope(t), last.fr.name) = last.val)
    /\ [][(assign_var /\ T.local_scopes # <<>>) =>
             LET n == Len(T.local_scopes)
             IN  /\ evs'[cur].env = T.env
                 /\ Len(evs'[cur].local_scopes) = n
                 /\ \A i \in 1..(n - 1) : evs'[cur].local_scopes[i] = T.local_scopes[i]
                 /\ \E name \in Names :
                       /\ evs'[cur].local_scopes[n][name] \in IntLits
                       /\ \A other \in Names \ {name} :
                             evs'[cur].local_scopes[n][other] = T.local_scopes[n][other]
                 /\ \A e \in 1..Len(evs) : e # cur => evs'[e] = evs[e]]_vars

\* `fn m(m) { m = 1 }` then `m(m)`: the module-level m, passed as the argument,
\* was reassigned in the body and is still the function
C12_Witness ==
    /\ last.what = "assign_var" /\ last.fr.name = "m"
    /\ Top.kind = "call"
    /\ Len(T.local_scopes) = 1
    /\ T.local_scopes[1]["m"] = IntV(1)
    /\ T.env["m"] = FnV(cur)
    /\ T.env["length"] = Unbound

\* ---------------------------------------------------------------- C13
\* C13: a break, continue or return signal that leaves a frame and goes on
\* propagating arrives in a frame run by the same evaluator: it never passes
\* from the code of one evaluator into the code of another.
C13_SignalsStayInEvaluator ==
    [][(/\ signal.kind \in {"break", "continue", "return"}
        /\ signal'.kind \in {"break", "continue", "return"}
        /\ ctl' = Front(ctl)) =>
          ctl'[Len(ctl')].ev = Top.ev]_vars

\* ---------------------------------------------------------------- C14
\* C14: run and run_file start on the evaluator E with the module environment the
\* earlier calls left, the end of a run call keeps it, and nothing changes it
\* between two calls; at the top level of a run call a name bound in the module
\* environment resolves to that binding.
C14_RunKeepsEnvironment ==
    /\ [][(ctl = <<>> \/ ctl' = <<>>) =>
             /\ evs'[1].env = evs[1].env
             /\ evs'[1].builtins = evs[1].builtins
             /\ evs'[1].local_scopes = evs[1].local_scopes]_vars
    /\ [](last.what = "run" =>
             /\ ctl = <<Frame("run", 1)>>
             /\ evs[1].local_scopes = <<>>
             /\ \A n \in Names :
                   evs[1].env[n] # Unbound => lookup_var(evs[1], n) = evs[1].env[n])

\* a run call starts and sees the module that an earlier call imported as length
C14_Witness ==
    /\ last.what = "run"
    /\ evs[1].env["length"].t = "ref"
    /\ lookup_var(evs[1], "length") = evs[1].env["length"]

\* ---------------------------------------------------------------- C15
\* the paths of the loads in progress
LoadsInProgress == {ctl[i].path : i \in {j \in 1..Len(ctl) : ctl[j].kind = "load"}}

\* C15: the loading set is exactly the set of the paths whose load is in
\* progress, no path is being loaded twice, a load that has ended (returned or
\* raised) has left the set, and outside every load the set is empty.
C15_LoadingIsLoadsInProgress ==
    /\ loading = LoadsInProgress
    /\ \A i, j \in 1..Len(ctl) :
          (ctl[i].kind = "load" /\ ctl[j].kind = "load" /\ i # j) =>
             ctl[i].path # ctl[j].path
    /\ last.what = "load_exit" => last.fr.path \notin loading
    /\ (\A i \in 1..Len(ctl) : ctl[i].kind # "load") => loading = {}

\* a nested load has failed on a circular import while the load that imported it
\* is still in progress
C15_Witness ==
    /\ last.what = "load_exit"
    /\ last.sig.kind = "error"
    /\ \E p \in loading : last.sig.msg = <<Tok("Circular module import", p)>>
    /\ loading # {}
    /\ Top.kind = "load"

\* ---------------------------------------------------------------- C16
\* C16: every load that fails raises a module error that names its own canonical
\* path: "Module not found" when there is no such file, "Circular module import"
\* when the path is being loaded, and otherwise "Module error in" the path,
\* followed by the original error.
C16_FailedLoadNamesPath ==
    (last.what = "load_refused" \/ (last.what = "load_exit" /\ last.sig.kind # "none")) =>
        /\ signal.kind = "error"
        /\ signal.msg # <<>>
        /\ signal.msg[1].path = last.fr.path
        /\ signal.msg[1].tag \in
              {"Module not found", "Circular module import", "Module error in"}
        /\ signal.msg[1].tag = "Circular module import" => last.fr.path \in loading
        /\ signal.msg[1].tag = "Module not found" =>
              last.fr.path \notin Files \cup Unreadable
        /\ signal.msg[1].tag = "Module error in" => Len(signal.msg) >= 2
        /\ last.what = "load_exit" => Tail(signal.msg) = last.sig.msg

\* ---------------------------------------------------------------- C17
\* the step is an import statement: a load refused, served from the cache, or
\* started
ImportStep ==
    /\ StmtCtx
    /\ \/ last'.what \in {"load_cached", "load_refused"}
       \/ Len(ctl') = Len(ctl) + 1 /\ ctl'[Len(ctl')].kind = "load"

\* C17: an import statement changes no evaluator but the importing one, and
\* that one only by binding one name (the alias, or else the stem of the path)
\* to the module's mapping in its current scope, when the load succeeds; the
\* file's top level starts in a new evaluator with an empty module environment
\* and no local scope, and its own statements change no other evaluator.
C17_ImportBindsOneName ==
    /\ []((last.what = "load_cached" \/ (last.what = "load_exit" /\ last.sig.kind = "none")) =>
             /\ last.val.t = "ref"
             /\ scope_get(T, current_scope(T), last.fr.name) = last.val)
    /\ [][ImportStep =>
             /\ \A e \in 1..Len(evs) : e # cur => evs'[e] = evs[e]
             /\ \/ evs'[cur] = T
                \/ \E raw_path \in RawPaths, alias \in Aliases :
                      /\ module_cache[resolve(raw_path, T.current_dir)] # 0
                      /\ evs'[cur] =
                            set_var(T, IF alias # "" THEN alias ELSE stem(raw_path),
                                    RefV(module_cache[resolve(raw_path, T.current_dir)]))
             /\ Len(evs') > Len(evs) =>
                   /\ evs'[cur] = T
                   /\ Len(evs') = Len(evs) + 1
                   /\ evs'[Len(evs')].env = EmptyScope
                   /\ evs'[Len(evs')].local_scopes = <<>>
                   /\ ctl'[Len(ctl')].ev = Len(evs')
                   /\ \E raw_path \in RawPaths, alias \in Aliases :
                         ctl'[Len(ctl')].name =
                            IF alias # "" THEN alias ELSE stem(raw_path)]_vars
    /\ [][(ctl # <<>> /\ Top.kind = "load" /\ signal.kind = "none" /\ ctl' = Front(ctl)) =>
             LET importer == ctl[Len(ctl) - 1].ev
             IN  /\ evs'[importer] =
                       set_var(evs[importer], Top.name, RefV(Len(heap) + 1))
                 /\ \A e \in 1..Len(evs) : e # importer => evs'[e] = evs[e]]_vars
    /\ [][(ctl # <<>> /\ Top.kind = "load" /\ signal.kind # "none") => evs' = evs]_vars
    /\ [][(/\ ctl # <<>> /\ Top.kind = "load"
           /\ Len(ctl') >= Len(ctl)
           /\ ctl'[Len(ctl')].kind # "call") =>
             \A e \in 1..Len(evs) : e # cur => evs'[e] = evs[e]]_vars

\* an import executed in a function body has bound the module in the local
\* scope of the call, and the module environment has no binding of the name
C17_Witness ==
    /\ last.what = "load_exit" /\ last.sig.kind = "none"
    /\ Top.kind = "call"
    /\ T.local_scopes[Len(T.local_scopes)][last.fr.name] = last.val
    /\ T.env[last.fr.name] = Unbound
    /\ last.fr.name = "length"

\* ---------------------------------------------------------------- C18
\* C18: an indexed assignment to a list with a number as the index succeeds only
\* if the index is an integer i with 0 <= i < length; it then replaces element i
\* and keeps the length and the other elements; otherwise it raises an error and
\* the list is unchanged.
C18_ListIndexInRange ==
    [][(/\ last'.what = "assign_index"
        /\ lookup_user_var(T, last'.fr.name).t = "list") =>
          LET r == lookup_user_var(T, last'.fr.name).a
              i == last'.val
          IN  IF signal'.kind = "none"
              THEN /\ i.t = "int"
                   /\ 0 <= i.a /\ i.a < Len(heap[r])
                   /\ Len(heap'[r]) = Len(heap[r])
                   /\ \A k \in 1..Len(heap[r]) :
                         heap'[r][k] = IF k = i.a + 1 THEN IntV(9) ELSE heap[r][k]
                   /\ \A q \in 1..Len(heap) : q # r => heap'[q] = heap[q]
              ELSE heap' = heap]_vars

\* ---------------------------------------------------------------- C19
\* C19: a call of a user function with another number of arguments than its
\* parameters raises the arity error and changes nothing else: no frame and no
\* scope is pushed, and every evaluator (its bindings, scope stack,
\* function_depth, loop_depth) and every mapping is as before the call; a call
\* that does start its body was given as many arguments as parameters.
C19_ArityCheckedBeforeBody ==
    /\ [](last.what = "call_refused" =>
             /\ last.val.a # Len(param_names)
             /\ signal = ErrorSig(<<Tok("TypeError: arity", <<>>)>>))
    /\ [][last'.what = "call_refused" =>
             /\ signal.kind = "none"
             /\ evs' = evs
             /\ ctl' = ctl
             /\ heap' = heap]_vars
    /\ [][(Len(ctl') > Len(ctl) /\ ctl'[Len(ctl')].kind = "call") =>
             LET e == ctl'[Len(ctl')].ev
                 scope == evs'[e].local_scopes[Len(evs'[e].local_scopes)]
             IN  /\ Len(evs'[e].local_scopes) = Len(evs[e].local_scopes) + 1
                 /\ \A i \in 1..Len(param_names) : scope[param_names[i]] # Unbound]_vars

\* a call without arguments, made in a loop of a function body, was refused
C19_Witness ==
    /\ last.what = "call_refused"
    /\ last.val = IntV(0)
    /\ Top.kind \in LoopKinds
    /\ T.function_depth = 1 /\ T.loop_depth = 1
    /\ Len(T.local_scopes) = 1

\* ---------------------------------------------------------------- C20
\* C20: a path is in the module cache only if its file exists and its top level
\* has been evaluated; the cache changes only when a load returns, by the entry
\* of that load's path, whose mapping is the module environment the evaluation
\* left; a load that fails leaves the cache as it is (the entries of its
\* dependencies stay), and its path, not being cached, is evaluated again by
\* the next load that reaches it.
C20_CachedOnlyIfEvaluated ==
    /\ [](\A p \in Paths : module_cache[p] # 0 =>
             /\ p \in Files
             /\ evalCount[p] >= 1
             /\ module_cache[p] \in 1..Len(heap))
    /\ []((last.what = "load_refused" \/ (last.what = "load_exit" /\ last.sig.kind # "none")) =>
             module_cache[last.fr.path] = 0)
    /\ []((last.what = "load_exit" /\ last.sig.kind = "none") =>
             /\ module_cache[last.fr.path] = last.val.a
             /\ heap[last.val.a] = evs[last.fr.ev].env)
    /\ [][module_cache' # module_cache =>
             /\ ctl # <<>> /\ Top.kind = "load" /\ signal.kind = "none"
             /\ ctl' = Front(ctl)
             /\ module_cache[Top.path] = 0
             /\ \A p \in Paths : p # Top.path => module_cache'[p] = module_cache[p]]_vars
    /\ [][(signal.kind # "none" \/ signal'.kind # "none") =>
             module_cache' = module_cache]_vars
    /\ [][(Len(ctl') > Len(ctl) /\ ctl'[Len(ctl')].kind = "load") =>
             /\ module_cache[ctl'[Len(ctl')].path] = 0
             /\ evalCount'[ctl'[Len(ctl')].path] = evalCount[ctl'[Len(ctl')].path] + 1]_vars

\* the file of a path whose first load failed is being evaluated a second time
C20_Witness ==
    /\ ctl # <<>> /\ Top.kind = "load"
    /\ evalCount[Top.path] = 2
    /\ module_cache[Top.path] = 0
    /\ T.env = EmptyScope

\* ---------------------------------------------------------------- C21
\* C21: whenever no run call is in progress on E (before the first, and after any
\* run has returned or raised, whatever the program did and wherever it failed),
\* E's local-scope stack is empty and its loop_depth and function_depth are 0;
\* the step that ends a run leaves E so and the next run starts from it.
C21_RunLeavesBookkeepingBalanced ==
    /\ [](ctl = <<>> =>
             /\ evs[1].local_scopes = <<>>
             /\ evs[1].loop_depth = 0
             /\ evs[1].function_depth = 0)
    /\ [][(ctl # <<>> /\ ctl' = <<>>) =>
             /\ evs'[1].local_scopes = <<>>
             /\ evs'[1].loop_depth = 0
             /\ evs'[1].function_depth = 0]_vars
    /\ [][(ctl = <<>> /\ ctl' # <<>>) =>
             /\ evs'[1].local_scopes = <<>>
             /\ evs'[1].loop_depth = 0
             /\ evs'[1].function_depth = 0]_vars

\* a run has raised an exception without a message: a LoopBreak, which a
\* function body raises only when it was called from the guard of a while loop
\* (loop_depth > 0, no loop body around the call to catch it); the run failed
\* inside a function call inside a loop
C21_Witness ==
    /\ ctl = <<>>
    /\ outcome = Raised(<<>>)
    /\ evs[1].local_scopes = <<>>
    /\ evs[1].loop_depth = 0
    /\ evs[1].function_depth = 0

\* ---------------------------------------------------------------- C22
\* the paths of the load_module calls in progress, outermost first
RECURSIVE LoadPaths(_)
LoadPaths(stack) ==
    IF stack = <<>> THEN <<>>
    ELSE IF stack[Len(stack)].kind = "load"
    THEN Append(LoadPaths(Front(stack)), stack[Len(stack)].path)
    ELSE LoadPaths(Front(stack))

\* C22: for module files whose top-level code is terminating statements and
\* imports, whatever the import graph: no path is in progress twice at once, so
\* the loads in progress are never more than the module files (the call stack
\* of the model has room for more); and every load in progress eventually
\* finishes, with the mapping of the module's exports or with an error.
C22_LoadsNestWithinPathsAndFinish ==
    /\ [](LET lp == LoadPaths(ctl)
          IN  /\ \A i, j \in 1..Len(lp) : lp[i] = lp[j] => i = j
              /\ {lp[i] : i \in 1..Len(lp)} = loading
              /\ loading \subseteq Files
              /\ Len(lp) <= Cardinality(Files)
              /\ Len(ctl) <= 1 + Cardinality(Files)
              /\ Len(ctl) < budget.frames)
    /\ [](last.what = "load_exit" =>
             \/ last.sig.kind = "none" /\ last.val.t = "ref" /\ last.val.a \in 1..Len(heap)
             \/ last.sig.kind = "error" /\ signal.kind = "error")
    /\ \A p \in Files :
          (p \in loading) ~> (last.what = "load_exit" /\ last.fr.path = p)
    /\ []<>(loading = {})

\* two files import each other: both loads are in progress, as many as there are
\* files, and the import that closes the cycle has been refused
C22_Witness ==
    /\ Len(LoadPaths(ctl)) = Cardinality(Files)
    /\ last.what = "load_refused"
    /\ last.fr.path = LoadPaths(ctl)[1]
    /\ signal.kind = "error"
    /\ Mentions(signal.msg, "Circular module import", LoadPaths(ctl)[1])
    /\ budget.loads > 0
====
